---- MODULE Spec2Model ----
(***************************************************************************)
(* Dynamic CSV storage API: the upload / query / delete handlers of        *)
(* main.py over the three tables of models.py, with the ingestion helpers  *)
(* of utils.py and crud.py.                                                *)
(*                                                                         *)
(* Three specifications:                                                   *)
(*   Spec      one server process: uploads, deletes and schema/data reads  *)
(*             handled one after the other;                                *)
(*   ConcSpec  two server processes over one database: the steps of their  *)
(*             uploads and deletes interleave between database statements; *)
(*   PipeSpec  the ingestion helpers (validate_and_clean_data,             *)
(*             insert_data_rows, build_column_index, infer_schema) applied *)
(*             to every DataFrame of a bounded family.                     *)
(***************************************************************************)
EXTENDS Integers, Sequences, FiniteSets, TLC

VARIABLES
    dataset_metadata,   \* committed rows of table dataset_metadata (a set)
    data_rows,          \* committed rows of table data_rows, in primary-key order
    column_index,       \* committed rows of table column_index, in primary-key order
    next_id,            \* next value of the dataset_metadata.id sequence
    pc,                 \* per worker: the handler step it is at
    req,                \* per worker: the locals of the request it is handling
    resp,               \* per worker: the last HTTP response it sent
    p_stage,            \* PipeSpec: stage of the ingestion helpers
    p_df,               \* PipeSpec: the DataFrame being processed
    p_out               \* PipeSpec: what the helpers returned so far

vars == <<dataset_metadata, data_rows, column_index, next_id, pc, req, resp,
          p_stage, p_df, p_out>>

storeVars == <<dataset_metadata, data_rows, column_index, next_id>>
procVars == <<pc, req, resp>>
pipeVars == <<p_stage, p_df, p_out>>

(***************************************************************************)
(* Bounds of the model.                                                    *)
(***************************************************************************)
MaxId == 3          \* at most this many dataset ids are ever drawn
MaxRows == 3        \* PipeSpec: DataFrames of at most this many rows

(***************************************************************************)
(* Values.  A cell is a string or pandas' missing marker NaN; after the    *)
(* null-normalisation of insert_data_rows it is a string or Python None.   *)
(***************************************************************************)
NaN == "<NaN>"
None == "<None>"

\* pd.isna(v) / isnull() on a cell
isna(v) == v = NaN \/ v = None

\* Code-point order of the strings the model uses (Python str comparison).
StrOrder ==
    << "", "25", "30", "Jane", "John", "LA", "NYC", "a", "age", "b", "caf?",
       "city", "name", "null", "x", "y" >>

StrRank(s) == CHOOSE i \in 1..Len(StrOrder) : StrOrder[i] = s

StrLess(a, b) == StrRank(a) < StrRank(b)

MinInt(a, b) == IF a < b THEN a ELSE b

\* seq[:n]
Head_n(seq, n) == SubSeq(seq, 1, MinInt(n, Len(seq)))

RECURSIVE SumSeq(_)
SumSeq(s) == IF s = <<>> THEN 0 ELSE Head(s) + SumSeq(Tail(s))

(***************************************************************************)
(* DataFrame: columns (names, in order), dtypes (one per column), index    *)
(* (the row labels) and data (one sequence of cells per row).              *)
(***************************************************************************)
NRows(df) == Len(df.data)
NCols(df) == Len(df.columns)

\* df[col] as a sequence of cells, j the position of the column
Column(df, j) == [i \in 1..NRows(df) |-> df.data[i][j]]

\* df[col].dropna()
dropna_col(col) == SelectSeq(col, LAMBDA v : ~isna(v))

\* df.isnull().all(axis=1) for row i
RowAllNull(df, i) == \A j \in 1..NCols(df) : isna(df.data[i][j])

\* positions (1-based, in the sequences) of the rows a predicate keeps
RECURSIVE KeepIdx(_, _, _)
KeepIdx(df, i, keepEmpty) ==
    IF i > NRows(df) THEN <<>>
    ELSE (IF RowAllNull(df, i) = keepEmpty THEN <<i>> ELSE <<>>)
         \o KeepIdx(df, i + 1, keepEmpty)

\* df.iloc[positions]
TakeRows(df, pos) ==
    [df EXCEPT !.index = [k \in 1..Len(pos) |-> df.index[pos[k]]],
               !.data = [k \in 1..Len(pos) |-> df.data[pos[k]]]]

(***************************************************************************)
(* utils.py                                                                *)
(***************************************************************************)
\* hashlib.sha256(...).hexdigest(): collision-free on the model's inputs
sha256_hexdigest(s) == "sha256(" \o s \o ")"

calculate_file_hash(content) == sha256_hexdigest(content)

\* json_value with None serialised like the empty string
json_value_null_as_empty(v) == IF v = None THEN "\"\"" ELSE "\"" \o v \o "\""

\* json.dumps of one value: None is the bare token null, a string is quoted
json_value(v) == IF v = None THEN "null" ELSE "\"" \o v \o "\""

\* the items of a dict (a sequence of <<key, value>>) sorted by key
RECURSIVE insert_sorted(_, _)
insert_sorted(item, sorted) ==
    IF sorted = <<>> THEN <<item>>
    ELSE IF StrLess(item[1], Head(sorted)[1]) THEN <<item>> \o sorted
    ELSE <<Head(sorted)>> \o insert_sorted(item, Tail(sorted))

RECURSIVE sort_keys(_)
sort_keys(items) ==
    IF items = <<>> THEN <<>>
    ELSE insert_sorted(Head(items), sort_keys(Tail(items)))

RECURSIVE json_items(_)
json_items(items) ==
    IF items = <<>> THEN ""
    ELSE json_value(Head(items)[1]) \o ": " \o json_value(Head(items)[2])
         \o (IF Len(items) > 1 THEN ", " ELSE "") \o json_items(Tail(items))

\* json.dumps(row_data, sort_keys=True)
json_dumps(row_data) == "{" \o json_items(sort_keys(row_data)) \o "}"

calculate_row_hash(row_data) == sha256_hexdigest(json_dumps(row_data))

PositionsCap == 100

\* the columns of df (positions) that hold at least one null
RECURSIVE missing_columns(_, _)
missing_columns(df, j) ==
    IF j > NCols(df) THEN <<>>
    ELSE LET nulls == SelectSeq([i \in 1..NRows(df) |-> i],
                                LAMBDA i : isna(df.data[i][j]))
         IN  (IF Len(nulls) > 0
              THEN << <<df.columns[j],
                        [count |-> Len(nulls),
                         \* the float null_count / len(df) * 100, as a fraction
                         percentage |-> <<Len(nulls) * 100, NRows(df)>>,
                         positions |-> Head_n([k \in 1..Len(nulls) |->
                                                  df.index[nulls[k]]],
                                              PositionsCap)]>> >>
              ELSE <<>>)
             \o missing_columns(df, j + 1)

detect_missing_values(df) ==
    LET missing_report == missing_columns(df, 1)
    IN  [has_missing |-> Len(missing_report) > 0,
         total_missing_cells |->
             SumSeq([k \in 1..Len(missing_report) |-> missing_report[k][2].count]),
         columns_with_missing |-> missing_report]

startswith(s, prefix) ==
    Len(s) >= Len(prefix) /\ SubSeq(s, 1, Len(prefix)) = prefix

\* the logical type infer_schema gives a pandas dtype name
logical_type(dtype) ==
    IF startswith(dtype, "int") THEN "integer"
    ELSE IF startswith(dtype, "float") THEN "float"
    ELSE IF dtype = "bool" THEN "boolean"
    ELSE IF dtype = "datetime64[ns]" THEN "datetime"
    ELSE "string"

\* the position of column name c in df.columns
ColPos(df, c) == CHOOSE j \in 1..NCols(df) : df.columns[j] = c

ColumnSet(df) == {df.columns[j] : j \in 1..NCols(df)}

infer_schema(df) ==
    [c \in ColumnSet(df) |-> logical_type(df.dtypes[ColPos(df, c)])]

\* df.columns[df.columns.duplicated()]: every repeat of an earlier name
duplicated_columns(columns) ==
    LET pos == SelectSeq([j \in 1..Len(columns) |-> j],
                         LAMBDA j : \E k \in 1..(j - 1) : columns[k] = columns[j])
    IN  [k \in 1..Len(pos) |-> columns[pos[k]]]

\* _maybe_dedup_names: the n-th repeat of a name x becomes x.n
dedup_names(columns) ==
    [j \in 1..Len(columns) |->
        LET n == Cardinality({k \in 1..(j - 1) : columns[k] = columns[j]})
        IN  IF n = 0 THEN columns[j] ELSE columns[j] \o "." \o ToString(n)]

\* all_null_columns with the check skipped for a table of zero rows
all_null_columns_skip_empty(df) ==
    LET pos == SelectSeq([j \in 1..NCols(df) |-> j],
                         LAMBDA j : \A i \in 1..NRows(df) : isna(df.data[i][j]))
    IN  IF NRows(df) = 0 THEN <<>> ELSE [k \in 1..Len(pos) |-> df.columns[pos[k]]]

\* df.columns[df.isnull().all()]: the columns whose every value is null
all_null_columns(df) ==
    LET pos == SelectSeq([j \in 1..NCols(df) |-> j],
                         LAMBDA j : \A i \in 1..NRows(df) : isna(df.data[i][j]))
    IN  [k \in 1..Len(pos) |-> df.columns[pos[k]]]

validate_and_clean_data(df) ==
    LET empty_rows == KeepIdx(df, 1, TRUE)
        errors1 == IF Len(empty_rows) > 0
                   THEN << [type |-> "empty_rows",
                            count |-> Len(empty_rows),
                            positions |-> [k \in 1..Len(empty_rows) |->
                                              df.index[empty_rows[k]]]] >>
                   ELSE <<>>
        df1 == IF Len(empty_rows) > 0
               THEN TakeRows(df, KeepIdx(df, 1, FALSE))
               ELSE df
        duplicate_cols == duplicated_columns(df1.columns)
        errors2 == IF duplicate_cols # <<>>
                   THEN errors1 \o << [type |-> "duplicate_columns",
                                       columns |-> duplicate_cols] >>
                   ELSE errors1
        df2 == IF duplicate_cols # <<>>
               THEN [df1 EXCEPT !.columns = dedup_names(df1.columns)]
               ELSE df1
        all_null_cols == all_null_columns(df2)
        errors3 == IF all_null_cols # <<>>
                   THEN errors2 \o << [type |-> "all_null_columns",
                                       columns |-> all_null_cols,
                                       action |-> "kept_for_schema_integrity"] >>
                   ELSE errors2
    IN  [df |-> df2, errors |-> errors3]

(***************************************************************************)
(* crud.py                                                                 *)
(***************************************************************************)
\* row.to_dict() with NaN replaced by None, items in column order
row_dict(df, i) ==
    [j \in 1..NCols(df) |->
        <<df.columns[j], IF isna(df.data[i][j]) THEN None ELSE df.data[i][j]>>]

\* the loop of insert_data_rows from row position i on
RECURSIVE insert_loop(_, _, _, _, _, _)
insert_loop(dataset_id, df, i, row_hashes, duplicate_count, added) ==
    IF i > NRows(df)
    THEN [rows |-> added, duplicate_count |-> duplicate_count]
    ELSE LET rd == row_dict(df, i)
             row_hash == calculate_row_hash(rd)
             is_duplicate == row_hash \in row_hashes
             data_row == [dataset_id |-> dataset_id,
                          row_number |-> df.index[i],
                          data_json |-> rd,
                          row_hash |-> row_hash,
                          has_missing_values |->
                              \E j \in 1..Len(rd) : rd[j][2] = None,
                          is_duplicate |-> is_duplicate]
         IN  insert_loop(dataset_id, df, i + 1,
                         row_hashes \cup {row_hash},
                         IF is_duplicate THEN duplicate_count + 1
                                         ELSE duplicate_count,
                         Append(added, data_row))

insert_data_rows(dataset_id, df) == insert_loop(dataset_id, df, 1, {}, 0, <<>>)

\* min / max of a non-empty sequence of strings, by Python str comparison
str_min(col) ==
    CHOOSE v \in {col[i] : i \in 1..Len(col)} :
        \A i \in 1..Len(col) : ~StrLess(col[i], v)

str_max(col) ==
    CHOOSE v \in {col[i] : i \in 1..Len(col)} :
        \A i \in 1..Len(col) : ~StrLess(v, col[i])

SampleSize == 10

\* index_data_type storing the inferred logical type
index_logical_type(df, j) == logical_type(df.dtypes[j])

\* str(df[col].dtype) as build_column_index stores it
index_data_type(df, j) == df.dtypes[j]

build_column_index(dataset_id, df) ==
    [j \in 1..NCols(df) |->
        LET col_data == dropna_col(Column(df, j))
        IN  [dataset_id |-> dataset_id,
             column_name |-> df.columns[j],
             data_type |-> index_data_type(df, j),
             distinct_count |->
                 Cardinality({col_data[i] : i \in 1..Len(col_data)}),
             min_value |-> IF Len(col_data) > 0 THEN str_min(col_data) ELSE None,
             max_value |-> IF Len(col_data) > 0 THEN str_max(col_data) ELSE None,
             sample_values |-> IF Len(col_data) > 0
                               THEN Head_n(col_data, SampleSize)
                               ELSE <<>>]]

(***************************************************************************)
(* The uploaded files.  content is the raw bytes (what the file hash is    *)
(* taken of), utf8 tells whether they decode as UTF-8, and lines is their  *)
(* tokenisation into records of fields, the header first.                  *)
(***************************************************************************)
FileTest ==
    [filename |-> "test.csv", utf8 |-> TRUE,
     content |-> "name,age,city\nJohn,30,NYC\nJane,25,LA",
     lines |-> << <<"name", "age", "city">>,
                  <<"John", "30", "NYC">>, <<"Jane", "25", "LA">> >>]

\* not valid UTF-8 (the ? is the byte 0xE9): read by the latin1 fallback
FileLatin ==
    [filename |-> "cafe.csv", utf8 |-> FALSE,
     content |-> "b,a\nx,\n,\nx,\ncaf?,",
     lines |-> << <<"b", "a">>,
                  <<"x", "">>, <<"", "">>, <<"x", "">>, <<"caf?", "">> >>]

\* a header and no record, sent under the file name of FileLatin
FileHeader ==
    [filename |-> "cafe.csv", utf8 |-> TRUE,
     content |-> "a\n",
     lines |-> << <<"a">> >>]

\* zero bytes: pandas raises EmptyDataError
FileEmpty ==
    [filename |-> "test.csv", utf8 |-> TRUE, content |-> "", lines |-> <<>>]

Files == {FileTest, FileLatin, FileHeader, FileEmpty}

\* the dataset_name query parameter; None when it is omitted
Names == {"sales", None}

\* datetime.now().strftime("%Y%m%d_%H%M%S") readings
Timestamps == {"20261104_120000"}

\* file.filename.replace(".csv", "")
strip_csv(filename) ==
    IF Len(filename) >= 4
       /\ SubSeq(filename, Len(filename) - 3, Len(filename)) = ".csv"
    THEN SubSeq(filename, 1, Len(filename) - 4)
    ELSE filename

auto_name(filename, ts) == strip_csv(filename) \o "_" \o ts

\* every dataset name a request can carry
AllNames ==
    (Names \ {None})
    \cup {auto_name(f.filename, ts) : f \in Files, ts \in Timestamps}

\* pandas' default na_values, applied by the latin1 fallback only
NaValues ==
    {"", "#N/A", "#N/A N/A", "#NA", "-1.#IND", "-1.#QNAN", "-NaN", "-nan",
     "1.#IND", "1.#QNAN", "<NA>", "N/A", "NA", "NULL", "NaN", "None", "n/a",
     "nan", "null"}

\* the DataFrame of a tokenised file; blank lines are skipped, every column
\* has dtype object because of dtype=str
frame_of(lines, na_filter) ==
    LET records == SelectSeq(Tail(lines), LAMBDA r : r # <<"">>)
    IN  [columns |-> Head(lines),
         dtypes |-> [j \in 1..Len(Head(lines)) |-> "object"],
         index |-> [i \in 1..Len(records) |-> i - 1],
         data |-> [i \in 1..Len(records) |->
                     [j \in 1..Len(records[i]) |->
                        IF na_filter /\ records[i][j] \in NaValues
                        THEN NaN ELSE records[i][j]]]]

\* main.py 87-90: read as UTF-8 keeping empty fields, else as latin1 with
\* pandas' NA conversion; no columns at all raises in both
read_csv(file) ==
    IF file.lines = <<>> THEN [ok |-> FALSE, error |-> "EmptyDataError"]
    ELSE IF file.utf8 THEN [ok |-> TRUE, df |-> frame_of(file.lines, FALSE)]
    ELSE [ok |-> TRUE, df |-> frame_of(file.lines, TRUE)]

(***************************************************************************)
(* Store queries (crud.py) over the committed tables.                      *)
(***************************************************************************)
get_dataset_by_name(dataset_name) ==
    {d \in dataset_metadata : d.dataset_name = dataset_name}

get_dataset_by_hash(file_hash) ==
    {d \in dataset_metadata : d.file_hash = file_hash}

\* unique_violation of columns declared without unique=True
unique_violation_unenforced(rows, m) == FALSE

\* unique=True on dataset_name and on file_hash: would row m collide with
\* one of rows?
unique_violation(rows, m) ==
    \E d \in rows : d.dataset_name = m.dataset_name \/ d.file_hash = m.file_hash

\* the order in which the database returns the rows of a query that has no
\* ORDER BY: the order of their primary keys
scan_order(rows) == rows

\* db.query(DataRow).filter(DataRow.dataset_id == id), and the same with
\* the is_duplicate == False filter
query_rows(dataset_id, exclude_duplicates) ==
    SelectSeq(scan_order(data_rows),
              LAMBDA r : r.dataset_id = dataset_id
                         /\ (exclude_duplicates => ~r.is_duplicate))

\* offset_limit with the limit applied before the offset
limit_then_offset(rows, offset, limit) ==
    SubSeq(Head_n(rows, limit), offset + 1, MinInt(limit, Len(rows)))

\* query.offset(offset).limit(limit).all()
offset_limit(rows, offset, limit) ==
    SubSeq(rows, offset + 1, MinInt(offset + limit, Len(rows)))

\* delete_dataset_data without its dataset_id filter
delete_every_row(rows, dataset_id) == <<>>

\* delete_dataset_data that deletes nothing
delete_no_row(rows, dataset_id) == rows

\* Query.delete() on both child tables
delete_dataset_data(rows, dataset_id) ==
    SelectSeq(rows, LAMBDA r : r.dataset_id # dataset_id)

(***************************************************************************)
(* schemas.py: the fields a response model requires, and FastAPI's         *)
(* validation of what the handler returned against its response_model.    *)
(***************************************************************************)
DatasetUploadResponse ==
    {"status", "dataset_id", "dataset_name", "rows_inserted", "columns",
     "duplicate_rows", "has_missing_values", "missing_value_summary",
     "errors_detected", "schema"}

SchemaResponse ==
    {"dataset_name", "schema", "row_count", "column_count",
     "has_missing_values"}

DataResponse == {"dataset_name", "total_rows", "returned_rows", "data"}

\* the status FastAPI sends for a returned body: 200 when the body has every
\* required field of the response model, 500 (ResponseValidationError) else
response_status(model, body) == IF model \subseteq DOMAIN body THEN 200 ELSE 500

(***************************************************************************)
(* Worker processes.  Each handles one request at a time; the steps of a   *)
(* handler are cut at its database statements, between which the other     *)
(* workers' transactions may commit.                                       *)
(***************************************************************************)
Workers == {"w1", "w2"}

NoReq == [op |-> "none"]

\* the status upload_csv answers when an exception reaches its
\* "except Exception" clause; raised is the status of the exception caught
\* (409 / 400 for the handler's own HTTPException, 0 for any other)
upload_except(raised) == 500

\* the rows flushed by the other workers' open transactions
pending_metadata(p) ==
    {req[q].metadata : q \in {w \in Workers \ {p} : pc[w] = "upload_commit"}}

\* workers that will still draw a dataset id (the model draws at most MaxId)
will_flush == {q \in Workers : pc[q] \in {"upload_parse", "upload_flush"}}

(***************************************************************************)
(* POST /upload-csv/                                                       *)
(***************************************************************************)
\* main.py 73-84: read the bytes, hash them, look the hash up
UploadBegin(p, file, dataset_name) ==
    /\ pc[p] = "idle"
    /\ LET file_hash == calculate_file_hash(file.content)
           match == get_dataset_by_hash(file_hash)
       IN  IF match # {}
           THEN /\ pc' = pc
                /\ req' = req
                /\ resp' = [op |-> "upload",
                            status |-> upload_except(409), raised |-> 409,
                            why |-> "duplicate_file", dataset_id |-> 0]
           ELSE /\ next_id + Cardinality(will_flush) <= MaxId
                /\ pc' = [pc EXCEPT ![p] = "upload_parse"]
                /\ req' = [req EXCEPT ![p] =
                              [op |-> "upload", file |-> file,
                               dataset_name |-> dataset_name,
                               file_hash |-> file_hash]]
                /\ resp' = resp
    /\ UNCHANGED <<storeVars, pipeVars>>

\* main.py 86-109: parse, clean, analyse, name the dataset, look the name up
UploadParse(p) ==
    /\ pc[p] = "upload_parse"
    /\ LET parsed == read_csv(req[p].file)
       IN  IF ~parsed.ok
           THEN /\ pc' = [pc EXCEPT ![p] = "idle"]
                /\ req' = [req EXCEPT ![p] = NoReq]
                /\ resp' = [op |-> "upload",
                            status |-> upload_except(0), raised |-> 0,
                            why |-> parsed.error, dataset_id |-> 0]
           ELSE \E ts \in Timestamps :
                LET dataset_name ==
                        IF req[p].dataset_name = None
                        THEN auto_name(req[p].file.filename, ts)
                        ELSE req[p].dataset_name
                IN  IF get_dataset_by_name(dataset_name) # {}
                    THEN /\ pc' = [pc EXCEPT ![p] = "idle"]
                         /\ req' = [req EXCEPT ![p] = NoReq]
                         /\ resp' = [op |-> "upload",
                                     status |-> upload_except(400),
                                     raised |-> 400,
                                     why |-> "duplicate_name",
                                     dataset_id |-> 0]
                    ELSE /\ pc' = [pc EXCEPT ![p] = "upload_flush"]
                         /\ req' = [req EXCEPT ![p].dataset_name = dataset_name]
                         /\ resp' = resp
    /\ UNCHANGED <<storeVars, pipeVars>>

\* the metadata_info of main.py 112-123 for a cleaned upload
metadata_info(file, file_hash, dataset_name) ==
    LET cleaned == validate_and_clean_data(read_csv(file).df)
        df == cleaned.df
        missing_report == detect_missing_values(df)
    IN  [dataset_name |-> dataset_name,
         original_filename |-> file.filename,
         row_count |-> NRows(df),
         column_count |-> NCols(df),
         file_hash |-> file_hash,
         schema_definition |-> infer_schema(df),
         has_missing_values |-> missing_report.has_missing,
         missing_value_report |-> missing_report,
         error_log |-> cleaned.errors,
         description |-> None]

\* main.py 125, crud.py 23-28: INSERT the metadata row in the request's
\* transaction.  The unique indexes make the INSERT wait for an open
\* transaction that holds a colliding row, and fail on a committed one.
UploadFlush(p) ==
    /\ pc[p] = "upload_flush"
    /\ LET info == metadata_info(req[p].file, req[p].file_hash,
                                 req[p].dataset_name)
       IN  /\ ~unique_violation(pending_metadata(p), info)
           /\ IF unique_violation(dataset_metadata, info)
              THEN /\ pc' = [pc EXCEPT ![p] = "idle"]
                   /\ req' = [req EXCEPT ![p] = NoReq]
                   /\ resp' = [op |-> "upload",
                               status |-> upload_except(0), raised |-> 0,
                               why |-> "IntegrityError", dataset_id |-> 0]
                   /\ next_id' = next_id
              ELSE /\ pc' = [pc EXCEPT ![p] = "upload_commit"]
                   /\ req' = [req EXCEPT ![p] =
                                 [op |-> "upload", file |-> req[p].file,
                                  metadata |-> info @@ [id |-> next_id,
                                                        duplicate_count |-> 0]]]
                   /\ resp' = resp
                   /\ next_id' = next_id + 1
    /\ UNCHANGED <<dataset_metadata, data_rows, column_index, pipeVars>>

\* the dict upload_csv returns, main.py 136-146
upload_body(metadata, df, duplicate_count, missing_report, errors, schema) ==
    [status |-> "success",
     dataset_id |-> metadata.id,
     dataset_name |-> metadata.dataset_name,
     rows_inserted |-> NRows(df),
     columns |-> NCols(df),
     duplicate_rows |-> duplicate_count,
     has_missing_values |-> missing_report.has_missing,
     errors_detected |-> Len(errors),
     schema |-> schema]

\* main.py 127-146: add the rows, set duplicate_count, add the column index,
\* commit, return; FastAPI then validates the returned dict
UploadCommit(p) ==
    /\ pc[p] = "upload_commit"
    /\ LET metadata == req[p].metadata
           cleaned == validate_and_clean_data(read_csv(req[p].file).df)
           df == cleaned.df
           inserted == insert_data_rows(metadata.id, df)
           body == upload_body(metadata, df, inserted.duplicate_count,
                               detect_missing_values(df), cleaned.errors,
                               infer_schema(df))
       IN  /\ dataset_metadata' = dataset_metadata \cup
                  {[metadata EXCEPT !.duplicate_count = inserted.duplicate_count]}
           /\ data_rows' = data_rows \o inserted.rows
           /\ column_index' = column_index \o build_column_index(metadata.id, df)
           /\ pc' = [pc EXCEPT ![p] = "idle"]
           /\ req' = [req EXCEPT ![p] = NoReq]
           /\ resp' = [op |-> "upload",
                       status |-> response_status(DatasetUploadResponse, body),
                       raised |-> 0, why |-> "returned",
                       dataset_id |-> metadata.id, body |-> body]
    /\ UNCHANGED <<next_id, pipeVars>>

(***************************************************************************)
(* DELETE /dataset/{dataset_name}                                          *)
(***************************************************************************)
\* main.py 235-237
DeleteLookup(p, dataset_name) ==
    /\ pc[p] = "idle"
    /\ LET found == get_dataset_by_name(dataset_name)
       IN  IF found = {}
           THEN /\ pc' = pc
                /\ req' = req
                /\ resp' = [op |-> "delete", status |-> 404,
                            dataset_name |-> dataset_name]
           ELSE /\ pc' = [pc EXCEPT ![p] = "delete_commit"]
                /\ req' = [req EXCEPT ![p] =
                              [op |-> "delete", dataset_name |-> dataset_name,
                               id |-> (CHOOSE d \in found : TRUE).id]]
                /\ resp' = resp
    /\ UNCHANGED <<storeVars, pipeVars>>

\* main.py 239-243, crud.py 76-79
DeleteCommit(p) ==
    /\ pc[p] = "delete_commit"
    /\ data_rows' = delete_dataset_data(data_rows, req[p].id)
    /\ column_index' = delete_dataset_data(column_index, req[p].id)
    /\ dataset_metadata' = {d \in dataset_metadata : d.id # req[p].id}
    /\ pc' = [pc EXCEPT ![p] = "idle"]
    /\ req' = [req EXCEPT ![p] = NoReq]
    /\ resp' = [op |-> "delete", status |-> 200,
                dataset_name |-> req[p].dataset_name,
                body |-> [status |-> "deleted",
                          dataset_name |-> req[p].dataset_name]]
    /\ UNCHANGED <<next_id, pipeVars>>

(***************************************************************************)
(* GET /dataset/{dataset_name}/schema and /data                            *)
(***************************************************************************)
\* main.py 186-197
GetSchema(p, dataset_name) ==
    /\ pc[p] = "idle"
    /\ LET found == get_dataset_by_name(dataset_name)
       IN  IF found = {}
           THEN resp' = [op |-> "schema", status |-> 404,
                         dataset_name |-> dataset_name]
           ELSE LET dataset == CHOOSE d \in found : TRUE
                    body == [dataset_name |-> dataset_name,
                             schema |-> dataset.schema_definition,
                             row_count |-> dataset.row_count,
                             column_count |-> dataset.column_count]
                IN  resp' = [op |-> "schema",
                             status |-> response_status(SchemaResponse, body),
                             dataset_name |-> dataset_name, body |-> body]
    /\ UNCHANGED <<storeVars, pc, req, pipeVars>>

DefaultLimit == 100
Limits == {0, 1, DefaultLimit}
Offsets == {0, 1, 3}

\* the rows get_data returns, main.py 215-220
get_data_rows(dataset_id, limit, offset, exclude_duplicates) ==
    offset_limit(query_rows(dataset_id, exclude_duplicates), offset, limit)

\* main.py 203-227
GetData(p, dataset_name, limit, offset, exclude_duplicates) ==
    /\ pc[p] = "idle"
    /\ LET found == get_dataset_by_name(dataset_name)
       IN  IF found = {}
           THEN resp' = [op |-> "data", status |-> 404,
                         dataset_name |-> dataset_name]
           ELSE LET dataset == CHOOSE d \in found : TRUE
                    rows == get_data_rows(dataset.id, limit, offset,
                                          exclude_duplicates)
                    body == [dataset_name |-> dataset_name,
                             total_rows |-> dataset.row_count,
                             returned_rows |-> Len(rows),
                             data |-> [k \in 1..Len(rows) |-> rows[k].data_json]]
                IN  resp' = [op |-> "data",
                             status |-> response_status(DataResponse, body),
                             dataset_name |-> dataset_name,
                             dataset_id |-> dataset.id,
                             limit |-> limit, offset |-> offset,
                             exclude_duplicates |-> exclude_duplicates,
                             body |-> body]
    /\ UNCHANGED <<storeVars, pc, req, pipeVars>>

(***************************************************************************)
(* PipeSpec: the ingestion helpers on a bounded family of DataFrames.      *)
(***************************************************************************)
PipeHeaders == { <<"a">>, <<"a", "b">>, <<"b", "a">> }
PipeCells == {NaN, "", "null"}

PipeFrame(h, d) ==
    [columns |-> h,
     dtypes |-> [j \in 1..Len(h) |-> "object"],
     index |-> [i \in 1..Len(d) |-> i - 1],
     data |-> d]

\* the DataFrames read_csv can hand to the helpers: unique column names,
\* dtype object, a 0-based range index
PipeFrames ==
    UNION { { PipeFrame(h, d) : d \in [1..n -> [1..Len(h) -> PipeCells]] } :
                h \in PipeHeaders, n \in 0..MaxRows }

NoOut == [errors |-> <<>>, rows |-> <<>>, duplicate_count |-> 0, index |-> <<>>]

PipeInit ==
    /\ p_df \in PipeFrames
    /\ p_stage = "parsed"
    /\ p_out = NoOut

PipeValidate ==
    /\ p_stage = "parsed"
    /\ LET cleaned == validate_and_clean_data(p_df)
       IN  p_out' = [p_out EXCEPT !.errors = cleaned.errors] @@ [df |-> cleaned.df]
    /\ p_stage' = "cleaned"
    /\ UNCHANGED <<p_df, storeVars, procVars>>

PipeInsert ==
    /\ p_stage = "cleaned"
    /\ LET inserted == insert_data_rows(1, p_out.df)
       IN  p_out' = [p_out EXCEPT !.rows = inserted.rows,
                                  !.duplicate_count = inserted.duplicate_count]
    /\ p_stage' = "inserted"
    /\ UNCHANGED <<p_df, storeVars, procVars>>

PipeIndex ==
    /\ p_stage = "inserted"
    /\ p_out' = [p_out EXCEPT !.index = build_column_index(1, p_out.df)]
                @@ [schema |-> infer_schema(p_out.df),
                    missing |-> detect_missing_values(p_out.df)]
    /\ p_stage' = "indexed"
    /\ UNCHANGED <<p_df, storeVars, procVars>>

(***************************************************************************)
(* Specifications.                                                         *)
(***************************************************************************)
StoreInit ==
    /\ dataset_metadata = {}
    /\ data_rows = <<>>
    /\ column_index = <<>>
    /\ next_id = 1
    /\ pc = [w \in Workers |-> "idle"]
    /\ req = [w \in Workers |-> NoReq]
    /\ resp = [op |-> "none", status |-> 0]

Init ==
    /\ StoreInit
    /\ p_stage = "off"
    /\ p_df = <<>>
    /\ p_out = NoOut

\* a worker's steps of the upload and delete handlers
Write(p) ==
    \/ \E file \in Files, dataset_name \in Names :
           UploadBegin(p, file, dataset_name)
    \/ UploadParse(p)
    \/ UploadFlush(p)
    \/ UploadCommit(p)
    \/ \E dataset_name \in AllNames : DeleteLookup(p, dataset_name)
    \/ DeleteCommit(p)

\* a worker's read handlers
Read(p) ==
    \/ \E dataset_name \in AllNames : GetSchema(p, dataset_name)
    \/ \E dataset_name \in AllNames, limit \in Limits, offset \in Offsets,
          exclude_duplicates \in BOOLEAN :
           GetData(p, dataset_name, limit, offset, exclude_duplicates)

\* one server process: its handlers never interleave
Next == \E p \in {"w1"} : Write(p) \/ Read(p)

Spec == Init /\ [][Next]_vars

\* several server processes over one database: uploads and deletes interleave
ConcNext == \E p \in Workers : Write(p)

ConcSpec == Init /\ [][ConcNext]_vars

PipeSpecInit == StoreInit /\ PipeInit

PipeNext == PipeValidate \/ PipeInsert \/ PipeIndex

PipeSpec == PipeSpecInit /\ [][PipeNext]_vars

(***************************************************************************)
(* Properties.                                                             *)
(***************************************************************************)
\* the committed rows / column-index entries of dataset id, as positions
RowsOf(id) == {i \in 1..Len(data_rows) : data_rows[i].dataset_id = id}
IndexOf(id) == {i \in 1..Len(column_index) : column_index[i].dataset_id = id}

\* a step in which an upload request is answered
UploadAnswered == resp' # resp /\ resp'.op = "upload"

\* C1: an upload whose file hash is already stored is answered 409, one
\* whose hash is new but whose dataset_name is stored is answered 400, and
\* 500 is answered for neither of the two.
C1_ConflictStatus ==
    resp.op = "upload" =>
        /\ resp.why = "duplicate_file" => resp.status = 409
        /\ resp.why = "duplicate_name" => resp.status = 400
        /\ resp.status = 500 => resp.why \notin {"duplicate_file", "duplicate_name"}

\* C2: an upload of a well-formed CSV with a new hash and a new name is
\* answered 200 with status "success", rows_inserted the number of rows
\* stored, columns the number of columns and duplicate_rows the number of
\* rows flagged duplicate (2 rows, 0 duplicates and no missing value for
\* the file of test_upload_csv).
C2_UploadSucceeds ==
    (resp.op = "upload" /\ resp.why = "returned") =>
        /\ resp.status = 200
        /\ resp.body.status = "success"
        /\ \A d \in dataset_metadata :
              d.id = resp.dataset_id =>
                  /\ resp.body.rows_inserted = Cardinality(RowsOf(d.id))
                  /\ resp.body.columns = Cardinality(IndexOf(d.id))
                  /\ resp.body.duplicate_rows =
                         Cardinality({i \in RowsOf(d.id) : data_rows[i].is_duplicate})
        /\ DOMAIN resp.body.schema = {"name", "age", "city"} =>
              /\ resp.body.rows_inserted = 2
              /\ resp.body.duplicate_rows = 0
              /\ ~resp.body.has_missing_values

\* C3: a step that answers an upload with anything other than 200 leaves
\* the three committed tables as they were.
C3_FailedUploadKeepsStore ==
    [][(UploadAnswered /\ resp'.status # 200) =>
           UNCHANGED <<dataset_metadata, data_rows, column_index>>]_vars

\* C4: no two committed datasets share a file_hash, and no two share a
\* dataset_name, however the workers' uploads and deletes interleave.
C4_UniqueHashAndName ==
    \A d1, d2 \in dataset_metadata :
        d1 # d2 => /\ d1.file_hash # d2.file_hash
                   /\ d1.dataset_name # d2.dataset_name

\* C4 witness: a worker passed both checks, lost the race to another upload
\* of the same bytes or name, and its INSERT was refused.
C4_Witness ==
    /\ resp.op = "upload" /\ resp.why = "IntegrityError"
    /\ dataset_metadata # {}

\* the null-normalised column-to-value mapping of row i of a DataFrame
Mapping(df, i) ==
    [c \in ColumnSet(df) |->
        LET v == df.data[i][ColPos(df, c)] IN IF v = NaN THEN None ELSE v]

\* C5: insert_data_rows stores one row per row of the table, flags row i
\* duplicate exactly when an earlier row j < i has the same null-normalised
\* mapping (null differs from the empty string), stores that mapping, and
\* returns the number of rows it flagged.
C5_DuplicateFlags ==
    p_stage \in {"inserted", "indexed"} =>
        LET df == p_out.df
            rows == p_out.rows
        IN  /\ Len(rows) = NRows(df)
            /\ \A i \in 1..Len(rows) :
                  /\ rows[i].is_duplicate <=>
                         \E j \in 1..(i - 1) : Mapping(df, j) = Mapping(df, i)
                  /\ {rows[i].data_json[k] : k \in 1..Len(rows[i].data_json)}
                         = {<<c, Mapping(df, i)[c]>> : c \in ColumnSet(df)}
            /\ p_out.duplicate_count =
                   Cardinality({i \in 1..Len(rows) : rows[i].is_duplicate})

\* C5 witness: three rows, the third repeating the first, and a row that
\* differs from another only by null against the empty string.
C5_Witness ==
    /\ p_stage = "inserted"
    /\ Len(p_out.rows) = 3
    /\ ~p_out.rows[2].is_duplicate
    /\ p_out.rows[3].is_duplicate
    /\ \E j \in 1..NCols(p_out.df) :
          p_out.df.data[1][j] = NaN /\ p_out.df.data[2][j] = ""
    /\ p_out.df.columns = <<"b", "a">>

\* the columns an all_null_columns entry of an error log names
AllNullLogged(errors) ==
    UNION {{errors[k].columns[j] : j \in 1..Len(errors[k].columns)} :
             k \in {n \in 1..Len(errors) : errors[n].type = "all_null_columns"}}

\* C9 as stated: column c is logged as all-null exactly when the table left
\* after empty-row removal has at least one row and every value of c in it
\* is null; for a table of zero rows nothing is logged.
C9_SkippedOnZeroRows ==
    p_stage \in {"cleaned", "inserted", "indexed"} =>
        LET df == p_out.df
        IN  \A j \in 1..NCols(df) :
                df.columns[j] \in AllNullLogged(p_out.errors) <=>
                    /\ NRows(df) >= 1
                    /\ \A i \in 1..NRows(df) : df.data[i][j] = NaN

\* C9 amended: column c is logged as all-null exactly when every value of c
\* in the table left after empty-row removal is null, which names every
\* column when that table has zero rows; the column is kept in the cleaned
\* table.
C9_AllNullColumns ==
    p_stage \in {"cleaned", "inserted", "indexed"} =>
        LET df == p_out.df
        IN  /\ df.columns = p_df.columns
            /\ \A j \in 1..NCols(df) :
                   df.columns[j] \in AllNullLogged(p_out.errors) <=>
                       \A i \in 1..NRows(df) : df.data[i][j] = NaN

\* C9 witness: every row of a non-empty table was removed as empty, and the
\* log names both columns of the zero-row table that is left.
C9_Witness ==
    /\ p_stage = "cleaned"
    /\ NRows(p_df) > 0
    /\ NRows(p_out.df) = 0
    /\ AllNullLogged(p_out.errors) = {"a", "b"}

\* the rows of a table that belong to dataset id, in table order
Part(rows, id) == SelectSeq(rows, LAMBDA r : r.dataset_id = id)

\* C6: a DELETE that succeeds leaves no metadata, data row or column-index
\* entry of the dataset and leaves every other dataset's metadata, rows and
\* entries as they were; a schema, data or delete request for a name that
\* no stored dataset has is answered 404 and changes nothing, and 404 is
\* answered for no other name.
C6_DeleteRemovesDataset ==
    [][/\ \A p \in Workers :
            (pc[p] = "delete_commit" /\ pc'[p] = "idle") =>
                LET id == req[p].id IN
                /\ resp'.op = "delete" /\ resp'.status = 200
                /\ resp'.dataset_name = req[p].dataset_name
                /\ dataset_metadata' = {d \in dataset_metadata : d.id # id}
                /\ \A d \in dataset_metadata' :
                       d.dataset_name # req[p].dataset_name
                /\ Part(data_rows', id) = <<>>
                /\ Part(column_index', id) = <<>>
                /\ Len(data_rows') = Len(data_rows) - Len(Part(data_rows, id))
                /\ Len(column_index') =
                       Len(column_index) - Len(Part(column_index, id))
                /\ \A d \in dataset_metadata' :
                       /\ Part(data_rows', d.id) = Part(data_rows, d.id)
                       /\ Part(column_index', d.id) = Part(column_index, d.id)
       /\ (resp' # resp /\ resp'.op \in {"schema", "data", "delete"}) =>
            /\ resp'.status = 404 <=>
                   \A d \in dataset_metadata :
                       d.dataset_name # resp'.dataset_name
            /\ resp'.status = 404 =>
                   UNCHANGED <<dataset_metadata, data_rows, column_index>>
      ]_vars

\* C6 witness: a DELETE has just succeeded while another dataset, with rows
\* and column-index entries of its own, stays stored.
C6_Witness ==
    /\ resp.op = "delete" /\ resp.status = 200
    /\ \E d \in dataset_metadata : RowsOf(d.id) # {} /\ IndexOf(d.id) # {}
    /\ \A d \in dataset_metadata : d.dataset_name # resp.dataset_name

\* how many rows of the same dataset were inserted before row i
InsertedBefore(i) ==
    Cardinality({j \in RowsOf(data_rows[i].dataset_id) :
                    data_rows[j].row_number < data_rows[i].row_number})

\* the same, counting only rows that are not flagged duplicate
KeptBefore(i) ==
    Cardinality({j \in RowsOf(data_rows[i].dataset_id) :
                    /\ data_rows[j].row_number < data_rows[i].row_number
                    /\ ~data_rows[j].is_duplicate})

LogicalTypes == {"integer", "float", "boolean", "datetime", "string"}

\* C8 as stated: the column-index entry of a committed dataset's column c
\* has data_type equal to schema_definition[c].
C8_IndexTypeIsLogicalType ==
    \A d \in dataset_metadata :
        \A i \in IndexOf(d.id) :
            column_index[i].data_type =
                d.schema_definition[column_index[i].column_name]

\* C8 amended: every column c of a committed dataset has exactly one
\* column-index entry; its data_type is the pandas dtype name of the column
\* ("object", every column being parsed with dtype=str), not a logical
\* type, and schema_definition[c] is the logical type infer_schema maps
\* that dtype name to ("string").
C8_IndexTypeIsDtypeName ==
    \A d \in dataset_metadata :
        \A c \in DOMAIN d.schema_definition :
            /\ Cardinality({i \in IndexOf(d.id) :
                               column_index[i].column_name = c}) = 1
            /\ \A i \in IndexOf(d.id) :
                  column_index[i].column_name = c =>
                      /\ column_index[i].data_type = "object"
                      /\ column_index[i].data_type \notin LogicalTypes
                      /\ d.schema_definition[c] = "string"
                      /\ d.schema_definition[c] =
                             logical_type(column_index[i].data_type)

\* C8 witness: two datasets are committed, one of them with three columns.
C8_Witness ==
    /\ Cardinality(dataset_metadata) = 2
    /\ \E d \in dataset_metadata :
          /\ DOMAIN d.schema_definition = {"name", "age", "city"}
          /\ Cardinality(IndexOf(d.id)) = 3

\* C10: every committed dataset has row_count data rows, column_count
\* column-index entries and duplicate_count rows flagged duplicate, and
\* every data row and column-index entry belongs to a committed dataset.
C10_DatasetConsistent ==
    /\ \A d \in dataset_metadata :
          /\ Cardinality(RowsOf(d.id)) = d.row_count
          /\ Cardinality(IndexOf(d.id)) = d.column_count
          /\ Cardinality({i \in RowsOf(d.id) : data_rows[i].is_duplicate})
                 = d.duplicate_count
    /\ \A i \in 1..Len(data_rows) :
          \E d \in dataset_metadata : d.id = data_rows[i].dataset_id
    /\ \A i \in 1..Len(column_index) :
          \E d \in dataset_metadata : d.id = column_index[i].dataset_id

\* C10 witness: after an upload and a delete by concurrent workers, a
\* dataset of three rows, one of them a duplicate, is stored while another
\* worker's upload is still uncommitted.
C10_Witness ==
    /\ resp.op = "delete" /\ resp.status = 200
    /\ \E d \in dataset_metadata : d.row_count = 3 /\ d.duplicate_count = 1
    /\ \E p \in Workers : pc[p] = "upload_commit"

====
